---------------------------- MODULE Spec2Model ----------------------------
(***************************************************************************)
(* A model of src/main.py: the FastAPI application `app` with its eight    *)
(* registered routes, the Firestore collections "products" and "users",    *)
(* and the helper functions the handlers call.                             *)
(*                                                                         *)
(* One action per endpoint a client can call.  An action builds the        *)
(* request, lets the router pick the handler (first matching route in      *)
(* registration order), runs the whole handler and records the response    *)
(* the client receives together with the store the handler leaves behind.  *)
(*                                                                         *)
(* Python values are tagged records (None, str, number, dict, GeoPoint).   *)
(* A handler body evaluates to an outcome: a returned response or a raised *)
(* exception.  `except Exception as e` catches every raised exception,     *)
(* HTTPException included.  An exception that leaves a handler is turned   *)
(* by the framework into the plain-text 500 "Internal Server Error".       *)
(*                                                                         *)
(* Coordinates are in hundredths of a degree.                             *)
(***************************************************************************)
EXTENDS Integers, Sequences, FiniteSets, TLC

\* How many documents the store creates in the products collection.
MaxProducts == 2

VARIABLES
    products,   \* collection "products": document id -> field mapping
    users,      \* collection "users": documents in stream order
    issued,     \* document ids the store has handed out
    req,        \* the last request served
    resp        \* the response the client received for it

vars == <<products, users, issued, req, resp>>

---------------------------------------------------------------------------
\* Python values

None_ == [t |-> "none"]
Str(s) == [t |-> "str", s |-> s]
\* A str whose characters the code inspects: a sequence of characters.
Text(chars) == [t |-> "str", chars |-> chars]
Num(n) == [t |-> "num", n |-> n]
Dict(f) == [t |-> "dict", items |-> f]
Bytes(salt, hash) == [t |-> "bytes", salt |-> salt, hash |-> hash]
GeoPoint(lat, lng) == [t |-> "geo", latitude |-> lat, longitude |-> lng]

EmptyMap == [k \in {} |-> 0]

\* Python truthiness of a value: None, "", <<>> and {} are falsy.
Truthy(v) ==
    CASE v.t = "none" -> FALSE
      [] v.t = "str"  -> IF "chars" \in DOMAIN v THEN v.chars # <<>> ELSE v.s # ""
      [] v.t = "dict" -> DOMAIN v.items # {}
      [] OTHER        -> TRUE

\* Outcomes of evaluating Python code.
Return(v) == [raise |-> FALSE, value |-> v]
Raise(e) == [raise |-> TRUE, e |-> e]

Exc(type, msg) == [type |-> type, msg |-> msg]
HTTPException(status_code, detail) ==
    [type |-> "HTTPException", status_code |-> status_code, detail |-> detail]

StoreFaultMsg == "503 store unavailable"
StoreFault == Exc("StoreFault", StoreFaultMsg)

\* str(e): an HTTPException prints as "<status_code>: <detail>".
StrOfException(e) ==
    IF e.type = "HTTPException"
    THEN CASE e.detail = "Product not found" -> "404: Product not found"
           [] e.detail = "No products found at the given location"
                -> "404: No products found at the given location"
           [] OTHER -> e.detail
    ELSE e.msg

---------------------------------------------------------------------------
\* Responses as the client sees them.  `raised` is the exception type the
\* server logged, "none" for a returned value.

JSONBody(status, body) == [status |-> status, body |-> body, raised |-> "none"]

\* The framework's handler for an HTTPException: {"detail": ...}.
HTTPExceptionResponse(e) ==
    [status |-> e.status_code,
     body |-> [kind |-> "detail", detail |-> e.detail],
     raised |-> "HTTPException"]

\* Any other exception leaving a handler.
ServerErrorResponse(e) ==
    [status |-> 500,
     body |-> [kind |-> "text", text |-> "Internal Server Error"],
     raised |-> e.type]

Respond(outcome) ==
    IF outcome.raise
    THEN IF outcome.e.type = "HTTPException"
         THEN HTTPExceptionResponse(outcome.e)
         ELSE ServerErrorResponse(outcome.e)
    ELSE outcome.value

\* try: <outcome> / except Exception as e: raise HTTPException(500, str(e))
ExceptException500(outcome) ==
    IF outcome.raise
    THEN Raise(HTTPException(500, StrOfException(outcome.e)))
    ELSE outcome

---------------------------------------------------------------------------
\* The document store

IdName == <<"p1", "p2", "p3", "p4">>
IdPool == {IdName[i] : i \in 1..MaxProducts}

\* The documents of a collection (id -> fields) in stream order (by id).
Stream(col) ==
    LET ids == SelectSeq(SubSeq(IdName, 1, MaxProducts),
                         LAMBDA i : i \in DOMAIN col)
    IN  [k \in 1..Len(ids) |-> [id |-> ids[k], data |-> col[ids[k]]]]

---------------------------------------------------------------------------
\* Helper functions

SerializeWithoutGeo(doc) ==
    [k \in DOMAIN doc.data \cup {"id"} |->
        IF k = "id" THEN Str(doc.id) ELSE doc.data[k]]

serialize_firestore_document(doc) ==
    LET data == [k \in DOMAIN doc.data \cup {"id"} |->
                    IF k = "id" THEN Str(doc.id) ELSE doc.data[k]]
    IN  [k \in DOMAIN data |->
            IF data[k].t = "geo"
            THEN Dict([c \in {"latitude", "longitude"} |->
                         IF c = "latitude" THEN data[k].latitude
                                           ELSE data[k].longitude])
            ELSE data[k]]

SerializeAll(docs) == [i \in DOMAIN docs |-> serialize_firestore_document(docs[i])]

---------------------------------------------------------------------------
\* Product handlers.  Each returns the response outcome and the collection
\* it leaves behind.

get_all_products(col, fault) ==
    LET body == IF fault THEN Raise(StoreFault)
                ELSE Return(JSONBody(200,
                        [kind |-> "list", items |-> SerializeAll(Stream(col))]))
    IN  [out |-> ExceptException500(body), products |-> col]

get_product_by_id(col, product_id, fault) ==
    LET body ==
            IF fault THEN Raise(StoreFault)
            ELSE IF product_id \in DOMAIN col
            THEN Return(JSONBody(200,
                    [kind |-> "product",
                     product |-> serialize_firestore_document(
                                    [id |-> product_id, data |-> col[product_id]])]))
            ELSE Raise(HTTPException(404, "Product not found"))
    IN  [out |-> ExceptException500(body), products |-> col]

get_products_by_location(col, lat, lng, fault) ==
    LET geo_point == GeoPoint(lat, lng)
        all == Stream(col)
        found == SelectSeq(all, LAMBDA d : d.data["location"] = geo_point)
        body ==
            IF fault THEN Raise(StoreFault)
            ELSE IF found # <<>>
            THEN Return(JSONBody(200,
                    [kind |-> "products", products |-> SerializeAll(found)]))
            ELSE Raise(HTTPException(404, "No products found at the given location"))
    IN  [out |-> ExceptException500(body), products |-> col]

create_product(col, product, fault, newId) ==
    LET loc == product["location"]
        keyError ==
            IF Truthy(loc) /\ "latitude" \notin DOMAIN loc.items THEN "'latitude'"
            ELSE IF Truthy(loc) /\ "longitude" \notin DOMAIN loc.items THEN "'longitude'"
            ELSE ""
        product_dict ==
            IF Truthy(loc)
            THEN [product EXCEPT !["location"] =
                     GeoPoint(loc.items["latitude"], loc.items["longitude"])]
            ELSE product
    IN  IF keyError # ""
        THEN [out |-> ExceptException500(Raise(Exc("KeyError", keyError))),
              products |-> col]
        ELSE IF fault
        THEN [out |-> ExceptException500(Raise(StoreFault)), products |-> col]
        ELSE [out |-> Return(JSONBody(200, [kind |-> "created", id |-> newId])),
              products |-> (newId :> product_dict) @@ col]

delete_product(col, product_id, fault) ==
    IF fault
    THEN [out |-> ExceptException500(Raise(StoreFault)), products |-> col]
    ELSE [out |-> Return(JSONBody(200, [kind |-> "deleted"])),
          products |-> [i \in DOMAIN col \ {product_id} |-> col[i]]]


---------------------------------------------------------------------------
\* Password and distance helpers

\* hashlib.pbkdf2_hmac('sha256', password, salt, 100000): an opaque digest
\* determined by the password and the salt.
pbkdf2_hmac(password, salt) == [digest_of |-> password, salted |-> salt]

\* salt is the 16 bytes os.urandom returned.
hash_password(password, salt) == Bytes(salt, pbkdf2_hmac(password, salt))

\* The module never imports math, so the first evaluation of `math.radians`
\* raises NameError for every argument.
haversine(lat1, lon1, lat2, lon2) ==
    Raise(Exc("NameError", "name 'math' is not defined"))

\* request.query_params is a starlette QueryParams mapping; the handlers
\* call it, `query_params('radius', type=float, default=10)`, and a mapping
\* is not callable.
CallQueryParams(query_params, key, default) ==
    Raise(Exc("TypeError", "'QueryParams' object is not callable"))

\* status.HTTP_200_SUCCESS: the status module defines HTTP_200_OK only.
HTTP_200_SUCCESS ==
    Raise(Exc("AttributeError", "module 'starlette.status' has no attribute 'HTTP_200_SUCCESS'"))

LowerChar(c) == IF c = "A" THEN "a" ELSE IF c = "B" THEN "b" ELSE c
Lower(s) == [i \in DOMAIN s |-> LowerChar(s[i])]
\* sub in s
Contains(sub, s) ==
    \E i \in 1..(Len(s) - Len(sub) + 1) : SubSeq(s, i, i + Len(sub) - 1) = sub

\* user_data.get(key, default)
DictGet(data, key, default) == IF key \in DOMAIN data THEN data[key] ELSE default

\* `continue`: the document is not appended.
Skip == [skip |-> TRUE]

NoneHasNoLower == Exc("AttributeError", "'NoneType' object has no attribute 'lower'")

---------------------------------------------------------------------------
\* User handlers

register_user(user, col, fault, newId, salt) ==
    IF user.t = "Request"
    THEN \* user.dict() on the Request the route passes in
         [out |-> ExceptException500(Raise(Exc("AttributeError",
                      "'Request' object has no attribute 'dict'"))),
          users |-> col]
    ELSE LET d == user.fields
             user_dict == IF Truthy(d["password"])
                          THEN [d EXCEPT !["password"] = hash_password(@.s, salt)]
                          ELSE d
         IN  IF fault
             THEN [out |-> ExceptException500(Raise(StoreFault)), users |-> col]
             ELSE [out |-> Return(JSONBody(200,
                            [kind |-> "tuple",
                             first |-> [kind |-> "registered", id |-> newId],
                             second |-> 201])),
                   users |-> Append(col, [id |-> newId, data |-> user_dict])]

\* One pass of the loop body of find_users (lines 176-201): the document to
\* append, Skip for `continue`, or the exception raised.
FindUsersStep(user_data, description_keyword, focus_area_keyword, lat, lng, radius) ==
    LET description == DictGet(user_data, "description", Text(<<>>))
        focus_area == DictGet(user_data, "focus_area", Text(<<>>))
        user_location == DictGet(user_data, "location", None_)
    IN  IF Truthy(description_keyword) /\ description.t # "str"
        THEN Raise(NoneHasNoLower)
        ELSE IF Truthy(description_keyword)
                /\ ~Contains(Lower(description_keyword.chars), Lower(description.chars))
        THEN Return(Skip)
        ELSE IF Truthy(focus_area_keyword) /\ focus_area.t # "str"
        THEN Raise(NoneHasNoLower)
        ELSE IF Truthy(focus_area_keyword)
                /\ ~Contains(Lower(focus_area_keyword.chars), Lower(focus_area.chars))
        THEN Return(Skip)
        ELSE IF lat.t # "none" /\ lng.t # "none" /\ radius.t # "none"
        THEN IF ~Truthy(user_location)
             THEN Return(Skip)
             ELSE LET distance == haversine(lat.n, lng.n,
                                     DictGet(user_location.items, "latitude", None_),
                                     DictGet(user_location.items, "longitude", None_))
                  IN  IF distance.raise THEN distance
                      ELSE IF distance.value > radius.n THEN Return(Skip)
                      ELSE Return(("distance" :> Num(distance.value)) @@ user_data)
        ELSE Return(user_data)

\* The for loop over the streamed documents, given the outcome of the loop
\* body for each of them: the first exception ends it.
RECURSIVE Loop(_, _, _)
Loop(steps, i, acc) ==
    IF i > Len(steps) THEN Return(acc)
    ELSE IF steps[i].raise THEN steps[i]
    ELSE Loop(steps, i + 1,
              IF steps[i].value = Skip THEN acc ELSE Append(acc, steps[i].value))

find_users(request, col, fault) ==
    LET q == request.query
        user_type == CallQueryParams(q, "type", None_)
        description_keyword == CallQueryParams(q, "description", None_)
        focus_area_keyword == CallQueryParams(q, "focus_area", None_)
        lat == CallQueryParams(q, "lat", None_)
        lng == CallQueryParams(q, "lng", None_)
        radius == CallQueryParams(q, "radius", None_)
        args == <<user_type, description_keyword, focus_area_keyword, lat, lng, radius>>
        failed == {i \in DOMAIN args : args[i].raise}
    IN  IF failed # {}
        THEN [out |-> args[CHOOSE i \in failed : \A j \in failed : i <= j], users |-> col]
        ELSE LET matching == IF Truthy(user_type.value)
                             THEN SelectSeq(col, LAMBDA d : d.data["type"] = user_type.value)
                             ELSE col
                 filtered_users ==
                     IF fault THEN Raise(StoreFault)
                     ELSE Loop([i \in DOMAIN matching |->
                                   FindUsersStep(matching[i].data,
                                       description_keyword.value,
                                       focus_area_keyword.value, lat.value, lng.value,
                                       radius.value)],
                               1, <<>>)
             IN  \* line 203 builds the response from status.HTTP_200_SUCCESS and
                 \* drops it; the function has no return statement, and the
                 \* route awaits the None it returns as if it were a response.
                 [out |-> IF filtered_users.raise THEN filtered_users
                          ELSE IF HTTP_200_SUCCESS.raise THEN HTTP_200_SUCCESS
                          ELSE Raise(Exc("TypeError", "'NoneType' object is not callable")),
                  users |-> col]


\* One pass of the loop body of find_users_by_location (lines 221-233).
FindByLocationStep(user_data, lat, lng, radius) ==
    LET user_location == DictGet(user_data, "location", None_)
    IN  IF ~Truthy(user_location)
        THEN Return(Skip)
        ELSE LET distance == haversine(lat.n, lng.n,
                                DictGet(user_location.items, "latitude", None_),
                                DictGet(user_location.items, "longitude", None_))
             IN  IF distance.raise THEN distance
                 ELSE IF distance.value <= radius.n
                 THEN Return(("distance" :> Num(distance.value)) @@ user_data)
                 ELSE Return(Skip)

\* list.sort(key=lambda x: x['distance']): a stable sort.
RECURSIVE SortByDistance(_, _, _)
SortByDistance(list, i, acc) ==
    IF i > Len(list) THEN acc
    ELSE LET x == list[i]
             k == Cardinality({j \in DOMAIN acc :
                                  acc[j]["distance"].n <= x["distance"].n})
         IN  SortByDistance(list, i + 1,
                 SubSeq(acc, 1, k) \o <<x>> \o SubSeq(acc, k + 1, Len(acc)))

find_users_by_location(request, col, fault) ==
    LET q == request.query
        lat == CallQueryParams(q, "lat", None_)
        lng == CallQueryParams(q, "lng", None_)
        radius == CallQueryParams(q, "radius", Num(10))
        args == <<lat, lng, radius>>
        failed == {i \in DOMAIN args : args[i].raise}
    IN  IF failed # {}
        THEN [out |-> args[CHOOSE i \in failed : \A j \in failed : i <= j], users |-> col]
        ELSE IF lat.value.t = "none" \/ lng.value.t = "none"
        THEN [out |-> Raise(HTTPException(400, "No products found at the given location")),
              users |-> col]
        ELSE LET users_ref == SelectSeq(col, LAMBDA d :
                                  DictGet(d.data, "location", None_) # None_)
                 nearby_users ==
                     IF fault THEN Raise(StoreFault)
                     ELSE Loop([i \in DOMAIN users_ref |->
                                   FindByLocationStep(users_ref[i].data, lat.value,
                                                      lng.value, radius.value)],
                               1, <<>>)
             IN  [out |-> IF nearby_users.raise THEN nearby_users
                          ELSE IF HTTP_200_SUCCESS.raise THEN HTTP_200_SUCCESS
                          ELSE Return(JSONBody(HTTP_200_SUCCESS.value,
                                   [kind |-> "list",
                                    items |-> SortByDistance(nearby_users.value, 1, <<>>)])),
                  users |-> col]

---------------------------------------------------------------------------
\* The router

\* The routes in registration order.  api: registered with a FastAPI
\* decorator (app.get/post/delete), which parses and validates the
\* handler's parameters; app.route registers a plain Starlette route,
\* whose endpoint is called with the Request.
Routes ==
    << [method |-> "GET", pattern |-> <<"products">>,
        handler |-> "get_all_products", api |-> TRUE],
       [method |-> "GET", pattern |-> <<"products", "{product_id}">>,
        handler |-> "get_product_by_id", api |-> TRUE],
       [method |-> "GET", pattern |-> <<"products", "location">>,
        handler |-> "get_products_by_location", api |-> TRUE],
       [method |-> "POST", pattern |-> <<"products">>,
        handler |-> "create_product", api |-> TRUE],
       [method |-> "DELETE", pattern |-> <<"products", "{product_id}">>,
        handler |-> "delete_product", api |-> TRUE],
       [method |-> "POST", pattern |-> <<"users", "register">>,
        handler |-> "register_user", api |-> FALSE],
       [method |-> "GET", pattern |-> <<"users", "find">>,
        handler |-> "find_users", api |-> FALSE],
       [method |-> "GET", pattern |-> <<"find_by_location">>,
        handler |-> "find_users_by_location", api |-> FALSE] >>

IsParam(segment) == segment = "{product_id}"

Matches(route, method, path) ==
    /\ route.method = method
    /\ Len(route.pattern) = Len(path)
    /\ \A i \in DOMAIN path : IsParam(route.pattern[i]) \/ route.pattern[i] = path[i]

\* The first route, in registration order, that matches.
Dispatch(method, path) ==
    LET hits == {i \in DOMAIN Routes : Matches(Routes[i], method, path)}
    IN  Routes[CHOOSE i \in hits : \A j \in hits : i <= j]

Request(method, path, query, json, fault) ==
    [t |-> "Request", method |-> method, path |-> path, query |-> query,
     json |-> json, fault |-> fault]

\* The handler call the matched route makes, with the store as it is.
Handle(route, r, newId, salt) ==
    LET h == route.handler
    IN  CASE h = "get_all_products" ->
               LET o == get_all_products(products, r.fault)
               IN  [out |-> o.out, products |-> o.products, users |-> users]
          [] h = "get_product_by_id" ->
               LET o == get_product_by_id(products, r.path[2], r.fault)
               IN  [out |-> o.out, products |-> o.products, users |-> users]
          [] h = "get_products_by_location" ->
               LET o == get_products_by_location(products, r.query["lat"].n,
                                                 r.query["lng"].n, r.fault)
               IN  [out |-> o.out, products |-> o.products, users |-> users]
          [] h = "create_product" ->
               LET o == create_product(products, r.json, r.fault, newId)
               IN  [out |-> o.out, products |-> o.products, users |-> users]
          [] h = "delete_product" ->
               LET o == delete_product(products, r.path[2], r.fault)
               IN  [out |-> o.out, products |-> o.products, users |-> users]
          [] h = "register_user" ->
               LET user == IF route.api THEN [t |-> "UserSchema", fields |-> r.json] ELSE r
                   o == register_user(user, users, r.fault, newId, salt)
               IN  [out |-> o.out, products |-> products, users |-> o.users]
          [] h = "find_users" ->
               LET o == find_users(r, users, r.fault)
               IN  [out |-> o.out, products |-> products, users |-> o.users]
          [] h = "find_users_by_location" ->
               LET o == find_users_by_location(r, users, r.fault)
               IN  [out |-> o.out, products |-> products, users |-> o.users]

\* The application serves the request with these parts.
Serve(method, path, query, json, fault, newId, salt) ==
    LET r == Request(method, path, query, json, fault)
        o == Handle(Dispatch(method, path), r, newId, salt)
    IN  /\ req' = r
        /\ resp' = Respond(o.out)
        /\ products' = o.products
        /\ users' = o.users
        /\ issued' = issued \cup DOMAIN o.products

---------------------------------------------------------------------------
\* What clients send

Coords(keyLat, lat, keyLng, lng) == Dict((keyLat :> lat) @@ (keyLng :> lng))

\* ProductSchema bodies that pass validation; location is any str -> float
\* mapping or null.
ProductBody(name, location) ==
    [name |-> Str(name), description |-> Str("fresh"), price |-> Num(40),
     quantity |-> Num(7), location |-> location]

ProductBodies ==
    { ProductBody("rice", None_),
      ProductBody("wheat", Dict(EmptyMap)),
      ProductBody("rice", Coords("latitude", 0, "longitude", 5)),
      ProductBody("wheat", Coords("latitude", 100, "longitude", 100)),
      ProductBody("rice", Coords("lat", 0, "lng", 5)) }

\* UserSchema bodies.
UserBodies ==
    { [phone_number |-> Str("555"), password |-> pw, email |-> None_,
       name |-> None_, type |-> Str("seller"), description |-> None_,
       location |-> None_, focus_area |-> None_] :
         pw \in {None_, Str("secret")} }

Salts == {"salt-a", "salt-b"}
NewUserId == "u9"

\* A query string: the parameters given, by name.
Param(key, v) == IF v = None_ THEN EmptyMap ELSE key :> v

ExactQueries ==
    { ("lat" :> Num(c)) @@ ("lng" :> Num(c + 5)) : c \in {0, 95} }

Query(type, description, focus_area, lat, lng, radius) ==
    Param("type", type) @@ Param("description", description)
        @@ Param("focus_area", focus_area)
        @@ Param("lat", lat) @@ Param("lng", lng) @@ Param("radius", radius)

FindQueries ==
    { Query(None_, None_, None_, None_, None_, None_),
      Query(Str("seller"), None_, None_, None_, None_, None_),
      Query(None_, Text(<<"a">>), None_, None_, None_, None_),
      Query(None_, None_, Text(<<"B">>), None_, None_, None_),
      Query(None_, None_, None_, Num(0), Num(0), Num(10)),
      Query(Str("seller"), Text(<<"a">>), Text(<<"B">>), Num(0), Num(0), Num(200)) }

NearbyQueries ==
    { Query(None_, None_, None_, None_, None_, None_),
      Query(None_, None_, None_, None_, None_, Num(10)),
      Query(None_, None_, None_, Num(0), None_, Num(10)),
      Query(None_, None_, None_, Num(0), Num(0), None_),
      Query(None_, None_, None_, Num(0), Num(0), Num(10)),
      Query(None_, None_, None_, Num(0), Num(0), Num(200)) }

\* The users collection is written by no working endpoint of this
\* application (see register_user); its documents come from other clients
\* of the store.
UserDoc(id, type, description, focus_area, location) ==
    [id |-> id,
     data |-> [phone_number |-> Str("555"), password |-> None_, email |-> None_,
               name |-> None_, type |-> Str(type), description |-> description,
               location |-> location, focus_area |-> focus_area]]

UNear == UserDoc("u1", "seller", Text(<<"A", "b">>), Text(<<"b">>),
                 Coords("latitude", 0, "longitude", 5))
UTie == UserDoc("u2", "buyer", Text(<<"b">>), None_,
                Coords("latitude", 5, "longitude", 0))
UFar == UserDoc("u3", "seller", None_, Text(<<"a", "B">>),
                Coords("latitude", 100, "longitude", 100))
UNoLocation == UserDoc("u4", "seller", Text(<<"a">>), Text(<<"b">>), None_)
UHere == UserDoc("u5", "buyer", Text(<<"a">>), Text(<<"b">>),
                 Coords("latitude", 0, "longitude", 0))

UserCollections ==
    { <<>>, <<UFar, UTie, UNear, UNoLocation, UHere>> }

---------------------------------------------------------------------------
\* The state machine

Init ==
    /\ products = EmptyMap
    /\ users \in UserCollections
    /\ issued = {}
    /\ req = None_
    /\ resp = None_

\* GET /products
GetProducts ==
    \E fault \in BOOLEAN :
        Serve("GET", <<"products">>, EmptyMap, None_, fault, "", "")

\* GET /products/<id>
GetProductById ==
    \E id \in IdPool, fault \in BOOLEAN :
        Serve("GET", <<"products", id>>, EmptyMap, None_, fault, "", "")

\* GET /products/location?lat=..&lng=..
GetProductsLocation ==
    \E q \in ExactQueries, fault \in BOOLEAN :
        Serve("GET", <<"products", "location">>, q, None_, fault, "", "")

\* POST /products; the store picks the id of the new document.
PostProducts ==
    \E body \in ProductBodies, newId \in IdPool \ issued, fault \in BOOLEAN :
        Serve("POST", <<"products">>, EmptyMap, body, fault, newId, "")

\* DELETE /products/<id>
DeleteProduct ==
    \E id \in IdPool, fault \in BOOLEAN :
        Serve("DELETE", <<"products", id>>, EmptyMap, None_, fault, "", "")

\* POST /users/register; salt is what os.urandom would return.
PostUsersRegister ==
    \E body \in UserBodies, salt \in Salts, fault \in BOOLEAN :
        Serve("POST", <<"users", "register">>, EmptyMap, body, fault,
              NewUserId, salt)

\* GET /users/find?...
GetUsersFind ==
    \E q \in FindQueries, fault \in BOOLEAN :
        Serve("GET", <<"users", "find">>, q, None_, fault, "", "")

\* GET /find_by_location?...
GetFindByLocation ==
    \E q \in NearbyQueries, fault \in BOOLEAN :
        Serve("GET", <<"find_by_location">>, q, None_, fault, "", "")

Next ==
    \/ GetProducts
    \/ GetProductById
    \/ GetProductsLocation
    \/ PostProducts
    \/ DeleteProduct
    \/ PostUsersRegister
    \/ GetUsersFind
    \/ GetFindByLocation

Spec == Init /\ [][Next]_vars

---------------------------------------------------------------------------
\* Vocabulary of the properties

Served(method, path) ==
    req.t = "Request" /\ req.method = method /\ req.path = path

Given(key) == key \in DOMAIN req.query

Detail(status, detail) ==
    resp.status = status /\ resp.body = [kind |-> "detail", detail |-> detail]

Abs(n) == IF n < 0 THEN -n ELSE n

\* The great-circle distance, in metres, that the Haversine formula with
\* R = 6371 km gives between the points used here (hundredths of a degree):
\* 0.01 degree along the equator or a meridian is 1112 m, and (0,0) to
\* (1,1) degree is 157249 m.
GreatCircleMetres(lat1, lon1, lat2, lon2) ==
    LET dlat == Abs(lat2 - lat1)
        dlon == Abs(lon2 - lon1)
    IN  IF dlat = 0 /\ lat1 = 0 THEN 1112 * dlon
        ELSE IF dlon = 0 THEN 1112 * dlat
        ELSE 157249

HasLocation(data) ==
    "location" \in DOMAIN data /\ data["location"].t = "dict"
        /\ {"latitude", "longitude"} \subseteq DOMAIN data["location"].items

MetresFrom(lat, lng, data) ==
    GreatCircleMetres(lat, lng, data["location"].items["latitude"],
                      data["location"].items["longitude"])

\* Within radius (kilometres) of (lat, lng).
Within(lat, lng, radius, data) ==
    HasLocation(data) /\ MetresFrom(lat, lng, data) <= 1000 * radius

WithoutDistance(item) == [k \in DOMAIN item \ {"distance"} |-> item[k]]

\* The response is 200 with a JSON array.
ListReturned == resp.status = 200 /\ resp.body.kind = "list"

\* The array holds document `data`.
Listed(data) ==
    \E i \in DOMAIN resp.body.items : WithoutDistance(resp.body.items[i]) = data

\* Where the store streamed a returned item.
StreamPosition(item) ==
    CHOOSE p \in DOMAIN users : users[p].data = WithoutDistance(item)

RadiusOrDefault == IF Given("radius") THEN req.query["radius"].n ELSE 10

\* The description / focus_area filter: the field is text containing the
\* keyword, case-insensitively.
HasKeyword(data, field, keyword) ==
    field \in DOMAIN data /\ data[field].t = "str"
        /\ Contains(Lower(keyword.chars), Lower(data[field].chars))

\* Every filter the /users/find request supplies accepts the document.
PassesFilters(data) ==
    /\ Given("type") => data["type"] = req.query["type"]
    /\ Given("description") => HasKeyword(data, "description", req.query["description"])
    /\ Given("focus_area") => HasKeyword(data, "focus_area", req.query["focus_area"])
    /\ (Given("lat") /\ Given("lng") /\ Given("radius"))
          => Within(req.query["lat"].n, req.query["lng"].n, req.query["radius"].n, data)

---------------------------------------------------------------------------
\* Properties

\* C1: GET /products/<id> for an id that has no document in the products
\* collection is answered 404 with detail "Product not found".
C1_UnknownProductIs404 ==
    (/\ req.t = "Request" /\ req.method = "GET" /\ Len(req.path) = 2
     /\ req.path[1] = "products" /\ req.path[2] \in IdPool
     /\ req.path[2] \notin DOMAIN products /\ ~req.fault)
        => Detail(404, "Product not found")

\* C2: GET /find_by_location with lat and lng returns exactly the user
\* documents that have a location within the radius (10 when not given),
\* each with a distance field equal to the computed distance.
C2_NearbyUsersReturned ==
    (Served("GET", <<"find_by_location">>) /\ Given("lat") /\ Given("lng") /\ ~req.fault)
        => /\ ListReturned
           /\ \A p \in DOMAIN users :
                Listed(users[p].data)
                    <=> Within(req.query["lat"].n, req.query["lng"].n,
                               RadiusOrDefault, users[p].data)
           /\ \A i \in DOMAIN resp.body.items :
                LET item == resp.body.items[i]
                IN  /\ "distance" \in DOMAIN item
                    /\ item["distance"] =
                          Num(MetresFrom(req.query["lat"].n, req.query["lng"].n, item))

\* C3: the list GET /find_by_location returns is in non-decreasing order of
\* distance, documents of equal distance in the order the store streamed them.
C3_NearbyUsersSorted ==
    (Served("GET", <<"find_by_location">>) /\ Given("lat") /\ Given("lng") /\ ~req.fault)
        => /\ ListReturned
           /\ \A i, j \in DOMAIN resp.body.items :
                i < j =>
                    LET a == resp.body.items[i]
                        b == resp.body.items[j]
                    IN  /\ a["distance"].n <= b["distance"].n
                        /\ a["distance"].n = b["distance"].n
                              => StreamPosition(a) < StreamPosition(b)

\* C4: GET /find_by_location without lat or without lng is answered 400,
\* whether or not radius is given.
C4_MissingCenterIs400 ==
    (Served("GET", <<"find_by_location">>) /\ (~Given("lat") \/ ~Given("lng")))
        => resp.status = 400

\* C5: GET /users/find returns a user document iff it passes every filter
\* the request supplies; a document whose description, focus_area or
\* location is null or absent is left out by that filter, not a failure.
C5_FiltersAreConjoined ==
    (Served("GET", <<"users", "find">>) /\ ~req.fault)
        => /\ ListReturned
           /\ \A p \in DOMAIN users : Listed(users[p].data) <=> PassesFilters(users[p].data)

\* C6: every GET /users/find is answered 200 with a JSON array, each element
\* carrying a distance when lat, lng and radius were given.
C6_FindUsersAnswers200 ==
    (Served("GET", <<"users", "find">>) /\ ~req.fault)
        => /\ resp.status = 200
           /\ resp.body.kind = "list"
           /\ (Given("lat") /\ Given("lng") /\ Given("radius"))
                 => \A i \in DOMAIN resp.body.items :
                       "distance" \in DOMAIN resp.body.items[i]

\* A request body create_product can store: its location, when given, has
\* both coordinates.
StorableBody ==
    req.json = None_ \/ "location" \notin DOMAIN req.json
        \/ ~Truthy(req.json["location"])
        \/ {"latitude", "longitude"} \subseteq DOMAIN req.json["location"].items

\* C7: a request served while the store's calls raise a fault is answered
\* 500 with the fault's message as detail, whichever handler serves it.
C7_StoreFaultIs500WithMessage ==
    (req.t = "Request" /\ req.fault /\ StorableBody) => Detail(500, StoreFaultMsg)

ProductsAt(lat, lng) ==
    {id \in DOMAIN products : products[id]["location"] = GeoPoint(lat, lng)}

\* C9: GET /products/location?lat&lng is answered 200 with exactly the
\* products stored at that geo-point, and 404 when there is none.
C9_ExactLocationMatch ==
    (Served("GET", <<"products", "location">>) /\ ~req.fault)
        => LET at == ProductsAt(req.query["lat"].n, req.query["lng"].n)
           IN  IF at = {}
               THEN resp.status = 404
               ELSE /\ resp.status = 200
                    /\ resp.body.kind = "products"
                    /\ {resp.body.products[i]["id"].s : i \in DOMAIN resp.body.products} = at

\* The serialized documents a 200 response to GET /products or
\* GET /products/<id> carries.
SerializedInResponse ==
    IF req.t = "Request" /\ resp.status = 200 /\ resp.body.kind = "list"
    THEN {resp.body.items[i] : i \in DOMAIN resp.body.items}
    ELSE IF req.t = "Request" /\ resp.status = 200 /\ resp.body.kind = "product"
    THEN {resp.body.product}
    ELSE {}

\* Mapping m is the serialization of the stored document id -> data.
IsSerializationOf(m, id, data) ==
    /\ DOMAIN m = DOMAIN data \cup {"id"}
    /\ m["id"] = Str(id)
    /\ \A k \in DOMAIN data :
          IF data[k].t = "geo"
          THEN /\ m[k].t = "dict"
               /\ DOMAIN m[k].items = {"latitude", "longitude"}
               /\ m[k].items["latitude"] = data[k].latitude
               /\ m[k].items["longitude"] = data[k].longitude
          ELSE m[k] = data[k]

\* C10: every serialized document has the id of a stored document, a
\* {latitude, longitude} pair with the same coordinates for each geo-point
\* field, and every other field unchanged; GET /products serializes every
\* stored document and GET /products/<id> the one asked for.
C10_SerializationKeepsFields ==
    /\ \A m \in SerializedInResponse :
          /\ "id" \in DOMAIN m
          /\ m["id"].s \in DOMAIN products
          /\ IsSerializationOf(m, m["id"].s, products[m["id"].s])
    /\ (Served("GET", <<"products">>) /\ resp.status = 200)
          => {m["id"].s : m \in SerializedInResponse} = DOMAIN products
    /\ (req.t = "Request" /\ resp.status = 200 /\ resp.body.kind = "product")
          => resp.body.product["id"].s = req.path[2]

\* A listing of two stored products, one with a geo-point location and one
\* without, has been served.
C10_Witness ==
    /\ Served("GET", <<"products">>)
    /\ resp.status = 200
    /\ Len(resp.body.items) = 2
    /\ \E i, j \in DOMAIN resp.body.items :
          /\ products[resp.body.items[i]["id"].s]["location"].t = "geo"
          /\ resp.body.items[i]["location"].t = "dict"
          /\ resp.body.items[j]["location"].t = "none"

=============================================================================
